---- MODULE Spec2Model ----
(***************************************************************************)
(* Model of the Google Maps RPA scraper: main.py (orchestration),          *)
(* scraper.py (scroll controller, extraction loop, record builder and the  *)
(* field extractors) and the two output sinks of utils.py.                 *)
(*                                                                         *)
(* Python strings are sequences of one-character strings; None is a value  *)
(* that is no string.  The browser driver is the environment: every driver *)
(* call either answers or raises one of selenium's exception classes.      *)
(***************************************************************************)
EXTENDS Integers, Sequences, FiniteSets, TLC

VARIABLES
    pc,              \* main: the statement main() is at
    cat,             \* main: index of the category the for loop is at
    driver,          \* main: the local `driver` (None / open / closed)
    all_results,     \* main: the result collection
    sinks,           \* the calls made to save_json / generate_excel, in order
    exit_code,       \* process exit status, "running" until the process ends
    interrupted,     \* the call KeyboardInterrupt was raised in, "no" if none
    fatal,           \* the call whose exception reached `except Exception`, "no" if none
    processed,       \* categories whose search_maps call was made
    failed,          \* categories whose search or extraction was cut short by a fault
    closes,          \* number of close_driver calls
    spc,             \* scroll_results: position inside the function
    i,               \* scroll_results: loop index
    scrolls_done,    \* scroll_results: local
    previous_height, \* scroll_results: local
    scrollHeight,    \* the feed element's scrollHeight (browser side)
    scrollRet,       \* scroll_results: <<value returned>>, <<>> before it returns
    cmds,            \* scroll commands the driver executed in this call
    stalled,         \* scroll_results left its loop through the break
    faultIter,       \* iteration (from 1) whose driver call raised, 0 if none
    doneAtFault,     \* iterations completed when that call raised
    scrollExc,       \* exception caught inside scroll_results, "none" if none
    extents,         \* history: the feed's extent at call time and after each scroll
    epc,             \* extract_results: position inside the function
    ncards,          \* extract_results: len(cards)
    idx,             \* extract_results: loop index
    results,         \* extract_results: local
    extractExc,      \* exception caught by extract_results' outer try, "none" if none
    seen,            \* history: the cards handed to _extract_single_result
    hist,            \* whether the two history variables are recorded
    fn,              \* the function called on its own, "none" inside a run of main
    arg,             \* its argument
    ret              \* the values it returned, in order

vars == <<pc, cat, driver, all_results, sinks, exit_code, interrupted, fatal,
          processed, failed, closes, spc, i, scrolls_done, previous_height, scrollHeight,
          scrollRet, cmds, stalled, faultIter, doneAtFault, scrollExc, extents,
          epc, ncards, idx, results, extractExc, seen, hist, fn, arg, ret>>

mainVars == <<driver, sinks, exit_code, interrupted, fatal, closes>>
scrollVars == <<spc, i, scrolls_done, previous_height, scrollHeight, scrollRet,
                cmds, stalled, faultIter, doneAtFault, scrollExc, extents>>
extractVars == <<epc, ncards, idx, results, extractExc, seen>>
callVars == <<fn, arg, ret>>

(***************************************************************************)
(* Configuration (config.py).                                              *)
(***************************************************************************)
\* config.TIPOS_ESTABELECIMENTO, in insertion order (dict iteration order).
TIPOS_ESTABELECIMENTO == <<"academia", "restaurante", "sorveteria">>

\* config.MAX_SCROLLS
MAX_SCROLLS == 5

\* config.MAX_RESULTADOS_POR_TIPO is 20 in config.py; extract_results only
\* compares len(results) with it, so the model runs with a small cap.
MAX_RESULTADOS_POR_TIPO == 2

\* Largest number of cards the feed script returns.
MaxCards == 3

\* Extents the feed element can have.
Heights == {0, 100, 250, 300, 400, 500}

None == <<"None">>

(***************************************************************************)
(* selenium.common.exceptions: the classes scraper.py imports.             *)
(***************************************************************************)
DriverFaults == {"NoSuchElementException", "StaleElementReferenceException",
                 "TimeoutException", "WebDriverException"}

(***************************************************************************)
(* Strings.                                                                *)
(***************************************************************************)
Digits == {"0", "1", "2", "3", "4", "5", "6", "7", "8", "9"}
Whitespace == {" ", "\t", "\n"}

IsDigit(c) == c \in Digits
IsSpace(c) == c \in Whitespace

Min(S) == CHOOSE m \in S : \A n \in S : m <= n

\* s[a..b], empty when a > b
Slice(s, a, b) == IF a > b THEN <<>> ELSE SubSeq(s, a, b)

RECURSIVE lstrip(_)
lstrip(s) == IF s # <<>> /\ IsSpace(Head(s)) THEN lstrip(Tail(s)) ELSE s

RECURSIVE rstrip(_)
rstrip(s) ==
    IF s # <<>> /\ IsSpace(s[Len(s)]) THEN rstrip(SubSeq(s, 1, Len(s) - 1)) ELSE s

\* str.strip()
strip(s) == rstrip(lstrip(s))

\* the sentinel "N/A"
NA == <<"N", "/", "A">>

\* str.replace('.', ',')
ReplaceDotByComma(s) == [k \in 1..Len(s) |-> IF s[k] = "." THEN "," ELSE s[k]]

\* (\d[,\.]\d) matches at position p
DecimalPairAt(t, p) ==
    /\ p >= 1
    /\ p + 2 <= Len(t)
    /\ IsDigit(t[p])
    /\ t[p + 1] \in {",", "."}
    /\ IsDigit(t[p + 2])

\* (\d[,\.]\d)\s*\( matches at position p
RatingParenAt(t, p) ==
    /\ DecimalPairAt(t, p)
    /\ \E j \in (p + 3)..Len(t) :
          /\ t[j] = "("
          /\ \A k \in (p + 3)..(j - 1) : IsSpace(t[k])

\* (?:^|\n)(\d[,\.]\d): the group starts at p
RatingLineStartAt(t, p) ==
    /\ DecimalPairAt(t, p)
    /\ (p = 1 \/ t[p - 1] = "\n")

\* _extract_rating with the line-start search tried before the parenthesis search
ExtractRatingLineStartFirst(text) ==
    LET paren == {p \in 1..Len(text) : RatingParenAt(text, p)}
        lead == {p \in 1..Len(text) : RatingLineStartAt(text, p)}
    IN  IF lead # {}
        THEN ReplaceDotByComma(SubSeq(text, Min(lead), Min(lead) + 2))
        ELSE IF paren # {}
        THEN ReplaceDotByComma(SubSeq(text, Min(paren), Min(paren) + 2))
        ELSE NA

_extract_rating(text) ==
    LET paren == {p \in 1..Len(text) : RatingParenAt(text, p)}
        lead == {p \in 1..Len(text) : RatingLineStartAt(text, p)}
    IN  IF paren # {}
        THEN ReplaceDotByComma(SubSeq(text, Min(paren), Min(paren) + 2))
        ELSE IF lead # {}
        THEN ReplaceDotByComma(SubSeq(text, Min(lead), Min(lead) + 2))
        ELSE NA

\* \(([0-9][0-9.]*)\) matches at position p, its closing parenthesis at q
ReviewsAt(t, p, q) ==
    /\ t[p] = "("
    /\ p + 1 < q
    /\ q <= Len(t)
    /\ IsDigit(t[p + 1])
    /\ \A k \in (p + 2)..(q - 1) : IsDigit(t[k]) \/ t[k] = "."
    /\ t[q] = ")"

_extract_reviews(text) ==
    LET starts == {p \in 1..Len(text) : \E q \in 1..Len(text) : ReviewsAt(text, p, q)}
    IN  IF starts # {}
        THEN LET p == Min(starts)
                 q == CHOOSE q \in 1..Len(text) : ReviewsAt(text, p, q)
             IN  SubSeq(text, p + 1, q - 1)
        ELSE NA

(***************************************************************************)
(* _extract_address and _clean_address.                                    *)
(***************************************************************************)
UpperLetters == <<"A", "B", "C", "D", "E", "F", "G", "H", "I", "J", "K", "L", "M",
                  "N", "O", "P", "Q", "R", "S", "T", "U", "V", "W", "X", "Y", "Z", "Ç">>
LowerLetters == <<"a", "b", "c", "d", "e", "f", "g", "h", "i", "j", "k", "l", "m",
                  "n", "o", "p", "q", "r", "s", "t", "u", "v", "w", "x", "y", "z", "ç">>

\* \w
IsWord(c) ==
    \/ c \in Digits
    \/ c = "_"
    \/ \E k \in 1..Len(UpperLetters) : c = UpperLetters[k] \/ c = LowerLetters[k]

\* str.lower(), which is how re.IGNORECASE compares
LowerChar(c) ==
    IF \E k \in 1..Len(UpperLetters) : c = UpperLetters[k]
    THEN LowerLetters[CHOOSE k \in 1..Len(UpperLetters) : c = UpperLetters[k]]
    ELSE c

Lower(s) == [k \in 1..Len(s) |-> LowerChar(s[k])]

\* the literal lit stands in s at position p
StartsAt(s, p, lit) ==
    /\ p >= 1
    /\ p + Len(lit) - 1 <= Len(s)
    /\ SubSeq(s, p, p + Len(lit) - 1) = lit

Contains(s, lit) == \E p \in 1..Len(s) : StartsAt(s, p, lit)

\* str.split(sep) for a one-character separator
RECURSIVE Split(_, _)
Split(s, sep) ==
    IF \E p \in 1..Len(s) : s[p] = sep
    THEN LET p == Min({q \in 1..Len(s) : s[q] = sep})
         IN  <<Slice(s, 1, p - 1)>> \o Split(Slice(s, p + 1, Len(s)), sep)
    ELSE <<s>>

\* [p.strip() for p in s.split(sep) if p.strip()]
StrippedParts(s, sep) ==
    LET raw == Split(s, sep)
        stripped == [k \in 1..Len(raw) |-> strip(raw[k])]
    IN  SelectSeq(stripped, LAMBDA x : x # <<>>)

\* the abbreviated street types, in the order of address_patterns and street_re
StreetAbbreviated == <<<<"R", ".">>, <<"A", "v", ".">>, <<"A", "l", ".">>, <<"T", "v", ".">>, <<"P", "ç", ".">>, <<"R", "o", "d", ".">>, <<"E", "s", "t", "r", ".">>>>

\* the spelled-out street types, in the order of `abbreviations`: entry k is
\* abbreviated to StreetAbbreviated[k]
StreetSpelled == <<<<"R", "u", "a">>, <<"A", "v", "e", "n", "i", "d", "a">>, <<"A", "l", "a", "m", "e", "d", "a">>, <<"T", "r", "a", "v", "e", "s", "s", "a">>, <<"P", "r", "a", "ç", "a">>, <<"R", "o", "d", "o", "v", "i", "a">>, <<"E", "s", "t", "r", "a", "d", "a">>>>

\* every alternative of street_re
StreetWords ==
    {StreetAbbreviated[k] : k \in 1..Len(StreetAbbreviated)}
        \cup {StreetSpelled[k] : k \in 1..Len(StreetSpelled)}

\* \d{5}-?\d{3} is found in line
CepIn(line) ==
    \E p \in 1..Len(line) :
        /\ p + 7 <= Len(line)
        /\ \A k \in p..(p + 4) : IsDigit(line[k])
        /\ \/ \A k \in (p + 5)..(p + 7) : IsDigit(line[k])
           \/ /\ p + 8 <= Len(line)
              /\ line[p + 5] = "-"
              /\ \A k \in (p + 6)..(p + 8) : IsDigit(line[k])

\* any of address_patterns is found in line: a street type followed by
\* whitespace, or a CEP
AddressPatternIn(line) ==
    \/ \E w \in StreetWords : \E p \in 1..Len(line) :
          /\ StartsAt(line, p, w)
          /\ p + Len(w) <= Len(line)
          /\ IsSpace(line[p + Len(w)])
    \/ CepIn(line)

\* (Aberto|Fechado|Fecha|Abre|24 horas|Delivery|Retirada), lower-cased
StatusWords == {<<"a", "b", "e", "r", "t", "o">>, <<"f", "e", "c", "h", "a", "d", "o">>, <<"f", "e", "c", "h", "a">>, <<"a", "b", "r", "e">>, <<"2", "4", " ", "h", "o", "r", "a", "s">>, <<"d", "e", "l", "i", "v", "e", "r", "y">>, <<"r", "e", "t", "i", "r", "a", "d", "a">>}

StatusIn(line) == \E w \in StatusWords : Contains(Lower(line), w)

\* ^\d[,\.]\d$
IsRatingOnly(line) ==
    \/ Len(line) = 3 /\ DecimalPairAt(line, 1)
    \/ Len(line) = 4 /\ DecimalPairAt(line, 1) /\ line[4] = "\n"

\* the second attempt of _extract_address over lines[-4:], last line first
RECURSIVE AddressFromTail(_, _)
AddressFromTail(lines, k) ==
    IF k < 1 \/ k <= Len(lines) - 4
    THEN NA
    ELSE IF StatusIn(lines[k]) \/ IsRatingOnly(lines[k]) \/ Len(lines[k]) <= 10
    THEN AddressFromTail(lines, k - 1)
    ELSE lines[k]

_extract_address(text) ==
    LET lines == StrippedParts(text, "\n")
        hits == {k \in 1..Len(lines) : AddressPatternIn(lines[k])}
    IN  IF hits # {}
        THEN lines[Min(hits)]
        ELSE IF Len(lines) >= 3
        THEN AddressFromTail(lines, Len(lines))
        ELSE NA

\* AddressPart without the split at the middle dots
AddressPartWhole(raw_address) == strip(raw_address)

\* Etapa 1 of _clean_address: the part of raw_address that holds the address
AddressPart(raw_address) ==
    LET parts == StrippedParts(raw_address, "·")
        street == {k \in 1..Len(parts) : \E w \in StreetWords : Contains(parts[k], w)}
        digit == {k \in 1..Len(parts) : \E p \in 1..Len(parts[k]) : IsDigit(parts[k][p])}
    IN  IF street # {}
        THEN parts[Min(street)]
        ELSE IF digit # {}
        THEN parts[CHOOSE k \in digit : \A n \in digit : n <= k]
        ELSE IF parts # <<>>
        THEN parts[Len(parts)]
        ELSE raw_address

\* ^(\d[\d\s]*?)\s+({street_re}\s+.+)$ matches address with group 2 at m
NumberFirstAt(address, m) ==
    /\ m >= 3
    /\ m <= Len(address)
    /\ IsDigit(address[1])
    /\ \A k \in 2..(m - 1) : IsDigit(address[k]) \/ IsSpace(address[k])
    /\ IsSpace(address[m - 1])
    /\ \E w \in StreetWords :
          /\ StartsAt(address, m, w)
          /\ LET e == m + Len(w)
                 last == IF address[Len(address)] = "\n"
                         THEN Len(address) - 1
                         ELSE Len(address)
             IN  \E r \in (e + 1)..last :
                    /\ \A k \in e..(r - 1) : IsSpace(address[k])
                    /\ \A k \in r..last : address[k] # "\n"

\* Etapa 2 of _clean_address: "564 Rua X" becomes "Rua X, 564"
NumberAfterStreet(address) ==
    LET ms == {m \in 1..Len(address) : NumberFirstAt(address, m)}
    IN  IF ms # {}
        THEN LET m == Min(ms)
             IN  strip(Slice(address, m, Len(address)))
                     \o <<",", " ">> \o strip(Slice(address, 1, m - 1))
        ELSE address

\* re.sub(r'\s*:\s*', ' ', s)
RECURSIVE SubColon(_)
SubColon(s) ==
    IF s = <<>>
    THEN <<>>
    ELSE LET w == Len(s) - Len(lstrip(s))
         IN  IF w < Len(s) /\ s[w + 1] = ":"
             THEN <<" ">> \o SubColon(lstrip(Slice(s, w + 2, Len(s))))
             ELSE <<s[1]>> \o SubColon(Tail(s))

\* re.sub(r'\s+', ' ', s)
RECURSIVE SubSpaces(_)
SubSpaces(s) ==
    IF s = <<>>
    THEN <<>>
    ELSE IF IsSpace(s[1])
    THEN <<" ">> \o SubSpaces(lstrip(s))
    ELSE <<s[1]>> \o SubSpaces(Tail(s))

\* re.sub(r'\bword\b', abbrev, s), scanning s from position p
RECURSIVE SubWordFrom(_, _, _, _)
SubWordFrom(s, p, word, abbrev) ==
    IF p > Len(s)
    THEN <<>>
    ELSE IF /\ StartsAt(s, p, word)
            /\ (p = 1 \/ ~IsWord(s[p - 1]))
            /\ (p + Len(word) > Len(s) \/ ~IsWord(s[p + Len(word)]))
    THEN abbrev \o SubWordFrom(s, p + Len(word), word, abbrev)
    ELSE <<s[p]>> \o SubWordFrom(s, p + 1, word, abbrev)

\* Etapa 4 of _clean_address: the first k entries of `abbreviations` applied
RECURSIVE Abbreviate(_, _)
Abbreviate(s, k) ==
    IF k = 0
    THEN s
    ELSE SubWordFrom(Abbreviate(s, k - 1), 1, StreetSpelled[k], StreetAbbreviated[k])

_clean_address(raw_address) ==
    IF raw_address = <<>> \/ raw_address = NA
    THEN raw_address
    ELSE LET address == NumberAfterStreet(AddressPart(raw_address))
             cleaned == strip(SubSpaces(SubColon(address)))
         IN  Abbreviate(cleaned, Len(StreetSpelled))

(***************************************************************************)
(* Cards.  A card is what the driver answers for one element of `cards`:   *)
(*   linkFault  exception of card.find_element, "none" if the link is found*)
(*   aria       the link's aria-label attribute, None if it has none       *)
(*   textFault  exception of the innerText script, "none" if it answers    *)
(*   text       the card's innerText                                       *)
(***************************************************************************)
Card(linkFault, aria, textFault, text) ==
    [linkFault |-> linkFault, aria |-> aria, textFault |-> textFault, text |-> text]

TextBar == <<"B", "a", "r", "\n", "4", ",", "5", "(", "1", ".", "2", "3", "4", ")", "\n", "R", ".", " ", "A", ",", " ", "1">>
TextGym == <<"G", "y", "m", "\n", "A", "b", "e", "r", "t", "o">>

CardBar == Card("none", <<" ", "B", "a", "r", " ">>, "none", TextBar)
CardGym == Card("none", <<"G", "y", "m">>, "none", TextGym)
CardNoLink == Card("NoSuchElementException", None, "none", <<>>)
CardNoLabel == Card("none", None, "none", TextGym)
CardEmptyLabel == Card("none", <<>>, "none", TextGym)
CardBlankLabel == Card("none", <<" ", "\t">>, "none", TextGym)
CardStale == Card("StaleElementReferenceException", None, "none", <<>>)
CardStaleText == Card("none", <<"G", "y", "m">>, "StaleElementReferenceException", <<>>)
CardBroken == Card("none", <<"G", "y", "m">>, "WebDriverException", <<>>)

Cards == {CardBar, CardGym, CardNoLink, CardNoLabel, CardEmptyLabel, CardBlankLabel,
          CardStale, CardStaleText, CardBroken}

(***************************************************************************)
(* _extract_single_result: what the call does with one card.  `exc` is the *)
(* exception it raises ("none" if it returns) and `data` holds the dict it *)
(* returns, empty when it returns None.                                    *)
(***************************************************************************)
Returns(data) == [exc |-> "none", data |-> data]
Raises(e) == [exc |-> e, data |-> <<>>]

\* _extract_single_result with `if not nome:` for its name check
ExtractSingleResultNoStripCheck(card, tipo) ==
    IF card.linkFault = "NoSuchElementException"
    THEN Returns(<<>>)
    ELSE IF card.linkFault # "none"
    THEN Raises(card.linkFault)
    ELSE IF card.aria = None \/ card.aria = <<>>
    THEN Returns(<<>>)
    ELSE IF card.textFault # "none"
    THEN Raises(card.textFault)
    ELSE Returns(<<[nome |-> strip(card.aria),
                    tipo |-> tipo,
                    nota |-> _extract_rating(card.text),
                    avaliacoes |-> _extract_reviews(card.text),
                    endereco |-> _clean_address(_extract_address(card.text))]>>)

_extract_single_result(card, tipo) ==
    IF card.linkFault = "NoSuchElementException"
    THEN Returns(<<>>)
    ELSE IF card.linkFault # "none"
    THEN Raises(card.linkFault)
    ELSE IF card.aria = None \/ card.aria = <<>> \/ strip(card.aria) = <<>>
    THEN Returns(<<>>)
    ELSE IF card.textFault # "none"
    THEN Raises(card.textFault)
    ELSE Returns(<<[nome |-> strip(card.aria),
                    tipo |-> tipo,
                    nota |-> _extract_rating(card.text),
                    avaliacoes |-> _extract_reviews(card.text),
                    endereco |-> _clean_address(_extract_address(card.text))]>>)

(***************************************************************************)
(* main(): the for loop over config.TIPOS_ESTABELECIMENTO.                 *)
(***************************************************************************)
tipo == TIPOS_ESTABELECIMENTO[cat]

\* the next iteration of the for loop, or the statements after it
NextCategory ==
    IF cat < Len(TIPOS_ESTABELECIMENTO)
    THEN cat' = cat + 1 /\ pc' = "search"
    ELSE cat' = cat /\ pc' = "save_json"

\* the state of a scroll_results call that has not started
ScrollIdle ==
    /\ spc = "idle"
    /\ i = 0
    /\ scrolls_done = 0
    /\ previous_height = 0
    /\ scrollHeight = 0
    /\ scrollRet = <<>>
    /\ cmds = 0
    /\ stalled = FALSE
    /\ faultIter = 0
    /\ doneAtFault = 0
    /\ scrollExc = "none"
    /\ extents = <<>>

\* the state of an extract_results call that has not started
ExtractIdle ==
    /\ epc = "idle"
    /\ ncards = 0
    /\ idx = 0
    /\ results = <<>>
    /\ extractExc = "none"
    /\ seen = <<>>

\* no function is being called on its own
CallIdle ==
    /\ fn = "none"
    /\ arg = <<>>
    /\ ret = <<>>

Init ==
    /\ pc = "init_driver"
    /\ cat = 0
    /\ driver = "None"
    /\ all_results = <<>>
    /\ sinks = <<>>
    /\ exit_code = "running"
    /\ interrupted = "no"
    /\ fatal = "no"
    /\ processed = {}
    /\ failed = {}
    /\ closes = 0
    /\ ScrollIdle
    /\ ExtractIdle
    /\ hist = FALSE
    /\ CallIdle

\* driver = init_driver() returns the browser; the for loop starts
InitDriver ==
    /\ pc = "init_driver"
    /\ driver' = "open"
    /\ cat' = 1
    /\ pc' = "search"
    /\ UNCHANGED <<all_results, sinks, exit_code, interrupted, fatal, processed, failed, closes,
                   scrollVars, extractVars, hist, callVars>>

\* init_driver() raises: logged as critical, sys.exit(1), then the finally block
InitDriverFails ==
    /\ pc = "init_driver"
    /\ fatal' = "init_driver"
    /\ pc' = "finally"
    /\ UNCHANGED <<cat, driver, all_results, sinks, exit_code, interrupted, processed, failed,
                   closes, scrollVars, extractVars, hist, callVars>>

\* search_maps(driver, query) returns: the feed is on the page, with some extent
SearchMaps ==
    /\ pc = "search"
    /\ processed' = processed \cup {cat}
    /\ pc' = "scroll"
    /\ spc' = "find"
    /\ i' = 0
    /\ scrolls_done' = 0
    /\ previous_height' = 0
    /\ \E h \in Heights :
          /\ scrollHeight' = h
          /\ extents' = IF hist THEN <<h>> ELSE <<>>
    /\ scrollRet' = <<>>
    /\ cmds' = 0
    /\ stalled' = FALSE
    /\ faultIter' = 0
    /\ doneAtFault' = 0
    /\ scrollExc' = "none"
    /\ UNCHANGED <<cat, all_results, mainVars, failed, extractVars, hist, callVars>>

\* SearchMapsFails without main's inner try: the exception reaches
\* `except Exception`
SearchMapsFailsFatal ==
    /\ pc = "search"
    /\ processed' = processed \cup {cat}
    /\ failed' = failed \cup {cat}
    /\ fatal' = "search"
    /\ pc' = "finally"
    /\ UNCHANGED <<cat, driver, all_results, sinks, exit_code, interrupted, closes,
                   scrollVars, extractVars, hist, callVars>>

\* search_maps raises TimeoutException or WebDriverException: main's inner
\* except logs it and continues with the next category
SearchMapsFails ==
    /\ pc = "search"
    /\ processed' = processed \cup {cat}
    /\ failed' = failed \cup {cat}
    /\ NextCategory
    /\ UNCHANGED <<all_results, mainVars, scrollVars, extractVars, hist, callVars>>

(***************************************************************************)
(* scroll_results(driver).                                                 *)
(***************************************************************************)
\* `return n` of scroll_results; main goes on to extract_results
ScrollReturn(n) ==
    /\ scrollRet' = <<n>>
    /\ spc' = "returned"
    /\ pc' = "extract"
    /\ epc' = "find"

\* ScrollExcept returning a count that includes the scroll command that raised
ScrollExceptCountsAttempt(e) ==
    /\ scrollExc' = e
    /\ ScrollReturn(IF spc = "cmd" THEN scrolls_done + 1 ELSE scrolls_done)

\* the two except clauses of scroll_results: both return 0
ScrollExcept(e) ==
    /\ scrollExc' = e
    /\ IF e = "NoSuchElementException" THEN ScrollReturn(0) ELSE ScrollReturn(0)

\* feed = driver.find_element(...); scrolls_done = 0; previous_height = 0
ScrollFind ==
    /\ pc = "scroll"
    /\ spc = "find"
    /\ scrolls_done' = 0
    /\ previous_height' = 0
    /\ i' = 0
    /\ spc' = "cmd"
    /\ UNCHANGED <<pc, cat, all_results, mainVars, processed, failed, scrollHeight, scrollRet,
                   cmds, stalled, faultIter, doneAtFault, scrollExc, extents,
                   extractVars, hist, callVars>>

\* ScrollFindFails with the exception re-raised to main's inner except
ScrollFindRaises ==
    /\ pc = "scroll"
    /\ spc = "find"
    /\ \E e \in DriverFaults : scrollExc' = e
    /\ spc' = "returned"
    /\ failed' = failed \cup {cat}
    /\ NextCategory
    /\ UNCHANGED <<all_results, mainVars, processed, i, scrolls_done, previous_height,
                   scrollHeight, scrollRet, cmds, stalled, faultIter, doneAtFault,
                   extents, extractVars, hist, callVars>>

\* driver.find_element raises
ScrollFindFails ==
    /\ pc = "scroll"
    /\ spc = "find"
    /\ \E e \in DriverFaults : ScrollExcept(e)
    /\ UNCHANGED <<cat, all_results, mainVars, processed, failed, i, scrolls_done,
                   previous_height, scrollHeight, cmds, stalled, faultIter,
                   doneAtFault, extents, ncards, idx, results, extractExc, seen, hist, callVars>>

\* the scroll script runs, the page settles during time.sleep, scrolls_done += 1
ScrollCommand ==
    /\ pc = "scroll"
    /\ spc = "cmd"
    /\ \E h \in Heights :
          /\ scrollHeight' = h
          /\ extents' = IF hist THEN Append(extents, h) ELSE extents
    /\ cmds' = cmds + 1
    /\ scrolls_done' = scrolls_done + 1
    /\ spc' = "read"
    /\ UNCHANGED <<pc, cat, all_results, mainVars, processed, failed, i, previous_height,
                   scrollRet, stalled, faultIter, doneAtFault, scrollExc,
                   extractVars, hist, callVars>>

\* the scroll script raises in iteration i + 1
ScrollCommandFails ==
    /\ pc = "scroll"
    /\ spc = "cmd"
    /\ faultIter' = i + 1
    /\ doneAtFault' = i
    /\ \E e \in DriverFaults : ScrollExcept(e)
    /\ UNCHANGED <<cat, all_results, mainVars, processed, failed, i, scrolls_done,
                   previous_height, scrollHeight, cmds, stalled, extents,
                   ncards, idx, results, extractExc, seen, hist, callVars>>

\* ScrollRead with `for i in range(config.MAX_SCROLLS - 1)`
ScrollReadShortLoop ==
    /\ pc = "scroll"
    /\ spc = "read"
    /\ LET current_height == scrollHeight
       IN  IF current_height = previous_height
           THEN /\ stalled' = TRUE
                /\ ScrollReturn(scrolls_done)
                /\ UNCHANGED <<i, previous_height>>
           ELSE /\ previous_height' = current_height
                /\ stalled' = stalled
                /\ IF i + 1 < MAX_SCROLLS - 1
                   THEN /\ i' = i + 1
                        /\ spc' = "cmd"
                        /\ UNCHANGED <<pc, epc, scrollRet>>
                   ELSE /\ ScrollReturn(scrolls_done)
                        /\ i' = i
    /\ UNCHANGED <<cat, all_results, mainVars, processed, failed, scrolls_done,
                   scrollHeight, cmds, faultIter, doneAtFault, scrollExc, extents,
                   ncards, idx, results, extractExc, seen, hist, callVars>>

\* current_height is read and compared with previous_height
ScrollRead ==
    /\ pc = "scroll"
    /\ spc = "read"
    /\ LET current_height == scrollHeight
       IN  IF current_height = previous_height
           THEN /\ stalled' = TRUE
                /\ ScrollReturn(scrolls_done)
                /\ UNCHANGED <<i, previous_height>>
           ELSE /\ previous_height' = current_height
                /\ stalled' = stalled
                /\ IF i + 1 < MAX_SCROLLS
                   THEN /\ i' = i + 1
                        /\ spc' = "cmd"
                        /\ UNCHANGED <<pc, epc, scrollRet>>
                   ELSE /\ ScrollReturn(scrolls_done)
                        /\ i' = i
    /\ UNCHANGED <<cat, all_results, mainVars, processed, failed, scrolls_done, scrollHeight,
                   cmds, faultIter, doneAtFault, scrollExc, extents,
                   ncards, idx, results, extractExc, seen, hist, callVars>>

\* the scrollHeight script raises in iteration i + 1
ScrollReadFails ==
    /\ pc = "scroll"
    /\ spc = "read"
    /\ faultIter' = i + 1
    /\ doneAtFault' = i
    /\ \E e \in DriverFaults : ScrollExcept(e)
    /\ UNCHANGED <<cat, all_results, mainVars, processed, failed, i, scrolls_done,
                   previous_height, scrollHeight, cmds, stalled, extents,
                   ncards, idx, results, extractExc, seen, hist, callVars>>

(***************************************************************************)
(* extract_results(driver, tipo), and all_results.extend(results) in main. *)
(***************************************************************************)
\* `return results` of extract_results
ExtractReturn(res) ==
    /\ results' = res
    /\ epc' = "returned"

\* the two except clauses of extract_results' outer try: both log and fall
\* through to `return results`
ExtractExcept(e) ==
    /\ extractExc' = e
    /\ failed' = failed \cup {cat}
    /\ IF e = "NoSuchElementException"
       THEN ExtractReturn(results)
       ELSE ExtractReturn(results)

\* the locals of the scroll_results call that returned are gone
ScrollForgotten ==
    /\ spc' = "idle"
    /\ i' = 0
    /\ scrolls_done' = 0
    /\ previous_height' = 0
    /\ scrollHeight' = 0
    /\ scrollRet' = <<>>
    /\ cmds' = 0
    /\ stalled' = FALSE
    /\ faultIter' = 0
    /\ doneAtFault' = 0
    /\ scrollExc' = "none"
    /\ extents' = <<>>

\* results = []; feed = driver.find_element(...)
ExtractFind ==
    /\ pc = "extract"
    /\ epc = "find"
    /\ results' = <<>>
    /\ epc' = "cards"
    /\ ScrollForgotten
    /\ UNCHANGED <<pc, cat, all_results, mainVars, processed, failed, ncards, idx,
                   extractExc, seen, hist, callVars>>

\* driver.find_element raises
ExtractFindFails ==
    /\ pc = "extract"
    /\ epc = "find"
    /\ \E e \in DriverFaults : ExtractExcept(e)
    /\ ScrollForgotten
    /\ UNCHANGED <<pc, cat, all_results, mainVars, processed, ncards, idx, seen, hist, callVars>>

\* cards = driver.execute_script(...)
ExtractCards ==
    /\ pc = "extract"
    /\ epc = "cards"
    /\ \E n \in 0..MaxCards : ncards' = n
    /\ idx' = 0
    /\ epc' = "loop"
    /\ UNCHANGED <<pc, cat, all_results, mainVars, processed, failed, scrollVars,
                   results, extractExc, seen, hist, callVars>>

\* the cards script raises
ExtractCardsFails ==
    /\ pc = "extract"
    /\ epc = "cards"
    /\ \E e \in DriverFaults : ExtractExcept(e)
    /\ UNCHANGED <<pc, cat, all_results, mainVars, processed, scrollVars, ncards, idx,
                   seen, hist, callVars>>

\* ExtractCard with `if len(results) > config.MAX_RESULTADOS_POR_TIPO`
ExtractCardCapOffByOne ==
    /\ pc = "extract"
    /\ epc = "loop"
    /\ idx < ncards
    /\ IF Len(results) > MAX_RESULTADOS_POR_TIPO
       THEN /\ ExtractReturn(results)
            /\ UNCHANGED <<idx, seen>>
       ELSE \E card \in Cards :
               LET data == _extract_single_result(card, tipo)
               IN  /\ results' = IF data.exc = "none"
                                 THEN results \o data.data
                                 ELSE results
                   /\ seen' = IF hist THEN Append(seen, card) ELSE seen
                   /\ idx' = idx + 1
                   /\ epc' = epc
    /\ UNCHANGED <<pc, cat, all_results, mainVars, processed, failed, scrollVars,
                   ncards, extractExc, hist, callVars>>

\* ExtractCard without the per-card try: an exception of
\* _extract_single_result ends the loop
ExtractCardFaultBreaks ==
    /\ pc = "extract"
    /\ epc = "loop"
    /\ idx < ncards
    /\ IF Len(results) >= MAX_RESULTADOS_POR_TIPO
       THEN /\ ExtractReturn(results)
            /\ UNCHANGED <<idx, seen>>
       ELSE \E card \in Cards :
               LET data == _extract_single_result(card, tipo)
               IN  /\ seen' = IF hist THEN Append(seen, card) ELSE seen
                   /\ IF data.exc = "none"
                      THEN /\ results' = results \o data.data
                           /\ idx' = idx + 1
                           /\ epc' = epc
                      ELSE /\ ExtractReturn(results)
                           /\ idx' = idx
    /\ UNCHANGED <<pc, cat, all_results, mainVars, processed, failed, scrollVars,
                   ncards, extractExc, hist, callVars>>

\* one iteration of `for idx, card in enumerate(cards)`: the cap check, then
\* _extract_single_result inside the per-card try
ExtractCard ==
    /\ pc = "extract"
    /\ epc = "loop"
    /\ idx < ncards
    /\ IF Len(results) >= MAX_RESULTADOS_POR_TIPO
       THEN /\ ExtractReturn(results)
            /\ UNCHANGED <<idx, seen>>
       ELSE \E card \in Cards :
               LET data == _extract_single_result(card, tipo)
               IN  /\ results' = IF data.exc = "none"
                                 THEN results \o data.data
                                 ELSE results
                   /\ seen' = IF hist THEN Append(seen, card) ELSE seen
                   /\ idx' = idx + 1
                   /\ epc' = epc
    /\ UNCHANGED <<pc, cat, all_results, mainVars, processed, failed, scrollVars,
                   ncards, extractExc, hist, callVars>>

\* the for loop is exhausted
ExtractLoopEnds ==
    /\ pc = "extract"
    /\ epc = "loop"
    /\ idx = ncards
    /\ ExtractReturn(results)
    /\ UNCHANGED <<pc, cat, all_results, mainVars, processed, failed, scrollVars,
                   ncards, idx, extractExc, seen, hist, callVars>>

\* ExtendResults with the category's records put in front of all_results
ExtendResultsInFront ==
    /\ pc = "extract"
    /\ epc = "returned"
    /\ all_results' = results \o all_results
    /\ epc' = "idle"
    /\ ncards' = 0
    /\ idx' = 0
    /\ results' = <<>>
    /\ extractExc' = "none"
    /\ seen' = <<>>
    /\ NextCategory
    /\ UNCHANGED <<mainVars, processed, failed, scrollVars, hist, callVars>>

\* main: all_results.extend(results); the for loop goes on
ExtendResults ==
    /\ pc = "extract"
    /\ epc = "returned"
    /\ all_results' = all_results \o results
    /\ epc' = "idle"
    /\ ncards' = 0
    /\ idx' = 0
    /\ results' = <<>>
    /\ extractExc' = "none"
    /\ seen' = <<>>
    /\ NextCategory
    /\ UNCHANGED <<mainVars, processed, failed, scrollVars, hist, callVars>>

(***************************************************************************)
(* main(): the output step, the except clauses and the finally block.      *)
(***************************************************************************)
SinkCall(sink) == [sink |-> sink, data |-> all_results]

\* save_json(all_results) writes the file
SaveJson ==
    /\ pc = "save_json"
    /\ sinks' = Append(sinks, SinkCall("save_json"))
    /\ pc' = "generate_excel"
    /\ UNCHANGED <<cat, driver, all_results, exit_code, interrupted, fatal, processed, failed,
                   closes, scrollVars, extractVars, hist, callVars>>

\* SaveJsonFails with close_driver(driver) also called in the except clause
SaveJsonFailsClosing ==
    /\ pc = "save_json"
    /\ fatal' = "save_json"
    /\ closes' = closes + 1
    /\ pc' = "finally"
    /\ UNCHANGED <<cat, driver, all_results, sinks, exit_code, interrupted, processed, failed,
                   scrollVars, extractVars, hist, callVars>>

\* save_json raises IOError: `except Exception` logs it and calls sys.exit(1)
SaveJsonFails ==
    /\ pc = "save_json"
    /\ fatal' = "save_json"
    /\ pc' = "finally"
    /\ UNCHANGED <<cat, driver, all_results, sinks, exit_code, interrupted, processed, failed,
                   closes, scrollVars, extractVars, hist, callVars>>

\* generate_excel(all_results) writes the workbook
GenerateExcel ==
    /\ pc = "generate_excel"
    /\ sinks' = Append(sinks, SinkCall("generate_excel"))
    /\ pc' = "finally"
    /\ UNCHANGED <<cat, driver, all_results, exit_code, interrupted, fatal, processed, failed,
                   closes, scrollVars, extractVars, hist, callVars>>

\* generate_excel logs its exception and re-raises it: `except Exception`
\* of main
GenerateExcelFails ==
    /\ pc = "generate_excel"
    /\ fatal' = "generate_excel"
    /\ pc' = "finally"
    /\ UNCHANGED <<cat, driver, all_results, sinks, exit_code, interrupted,
                   processed, failed, closes, scrollVars, extractVars, hist, callVars>>

\* the calls inside main's try block
TryBlock == {"init_driver", "search", "scroll", "extract", "save_json", "generate_excel"}

\* Ctrl+C inside the try block: `except KeyboardInterrupt` logs a warning
Interrupt ==
    /\ pc \in TryBlock
    /\ interrupted' = pc
    /\ pc' = "finally"
    /\ UNCHANGED <<cat, driver, all_results, sinks, exit_code, fatal, processed, failed,
                   closes, scrollVars, extractVars, hist, callVars>>

\* the status the process ends with: sys.exit(1) was called or main returned
ExitStatus == IF fatal # "no" THEN "1" ELSE "0"

\* finally: `if driver: close_driver(driver)`, driver.quit() succeeds
CloseDriver ==
    /\ pc = "finally"
    /\ driver = "open"
    /\ driver' = "closed"
    /\ closes' = closes + 1
    /\ exit_code' = ExitStatus
    /\ pc' = "done"
    /\ UNCHANGED <<cat, all_results, sinks, interrupted, fatal, processed, failed,
                   scrollVars, extractVars, hist, callVars>>

\* driver.quit() raises WebDriverException: close_driver logs a warning
CloseDriverFails ==
    /\ pc = "finally"
    /\ driver = "open"
    /\ driver' = "quit failed"
    /\ closes' = closes + 1
    /\ exit_code' = ExitStatus
    /\ pc' = "done"
    /\ UNCHANGED <<cat, all_results, sinks, interrupted, fatal, processed, failed,
                   scrollVars, extractVars, hist, callVars>>

\* finally with driver = None: nothing to close
FinallyNoDriver ==
    /\ pc = "finally"
    /\ driver = "None"
    /\ exit_code' = ExitStatus
    /\ pc' = "done"
    /\ UNCHANGED <<cat, driver, all_results, sinks, interrupted, fatal, processed, failed,
                   closes, scrollVars, extractVars, hist, callVars>>

ScrollStep ==
    \/ ScrollFind
    \/ ScrollFindFails
    \/ ScrollCommand
    \/ ScrollCommandFails
    \/ ScrollRead
    \/ ScrollReadFails

ExtractStep ==
    \/ ExtractFind
    \/ ExtractFindFails
    \/ ExtractCards
    \/ ExtractCardsFails
    \/ ExtractCard
    \/ ExtractLoopEnds

Next ==
    \/ InitDriver
    \/ InitDriverFails
    \/ SearchMaps
    \/ SearchMapsFails
    \/ ScrollStep
    \/ ExtractStep
    \/ ExtendResults
    \/ SaveJson
    \/ SaveJsonFails
    \/ GenerateExcel
    \/ GenerateExcelFails
    \/ Interrupt
    \/ CloseDriver
    \/ CloseDriverFails
    \/ FinallyNoDriver

Spec == Init /\ [][Next]_vars

(***************************************************************************)
(* scroll_results on its own: main has just called it, on a feed of any    *)
(* extent, and the history of the feed's extents is recorded.              *)
(***************************************************************************)
InitScroll ==
    /\ pc = "scroll"
    /\ cat = 1
    /\ driver = "open"
    /\ all_results = <<>>
    /\ sinks = <<>>
    /\ exit_code = "running"
    /\ interrupted = "no"
    /\ fatal = "no"
    /\ processed = {1}
    /\ failed = {}
    /\ closes = 0
    /\ spc = "find"
    /\ i = 0
    /\ scrolls_done = 0
    /\ previous_height = 0
    /\ scrollHeight \in Heights
    /\ extents = <<scrollHeight>>
    /\ scrollRet = <<>>
    /\ cmds = 0
    /\ stalled = FALSE
    /\ faultIter = 0
    /\ doneAtFault = 0
    /\ scrollExc = "none"
    /\ ExtractIdle
    /\ hist = TRUE
    /\ CallIdle

SpecScroll == InitScroll /\ [][ScrollStep]_vars

\* scroll_results is sequential code and every driver call answers or raises:
\* a step that can be taken is taken
SpecScrollFair == SpecScroll /\ WF_vars(ScrollStep)

(***************************************************************************)
(* extract_results on its own: main has just called it for some category,  *)
(* and the cards it reads are recorded.                                    *)
(***************************************************************************)
InitExtract ==
    /\ pc = "extract"
    /\ cat \in 1..Len(TIPOS_ESTABELECIMENTO)
    /\ driver = "open"
    /\ all_results = <<>>
    /\ sinks = <<>>
    /\ exit_code = "running"
    /\ interrupted = "no"
    /\ fatal = "no"
    /\ processed = 1..cat
    /\ failed = {}
    /\ closes = 0
    /\ spc = "returned"
    /\ i = 0
    /\ scrolls_done = 0
    /\ previous_height = 0
    /\ scrollHeight = 0
    /\ extents = <<>>
    /\ scrollRet = <<0>>
    /\ cmds = 0
    /\ stalled = FALSE
    /\ faultIter = 0
    /\ doneAtFault = 0
    /\ scrollExc = "none"
    /\ epc = "find"
    /\ ncards = 0
    /\ idx = 0
    /\ results = <<>>
    /\ extractExc = "none"
    /\ seen = <<>>
    /\ hist = TRUE
    /\ CallIdle

SpecExtract == InitExtract /\ [][ExtractStep]_vars

(***************************************************************************)
(* The field functions called on their own, on arguments drawn from        *)
(* bounded sets of strings.                                                *)
(***************************************************************************)
\* the state of main, scroll_results and extract_results when none of them runs
NotRunning ==
    /\ pc = "call"
    /\ driver = "None"
    /\ all_results = <<>>
    /\ sinks = <<>>
    /\ exit_code = "running"
    /\ interrupted = "no"
    /\ fatal = "no"
    /\ processed = {}
    /\ failed = {}
    /\ closes = 0
    /\ ScrollIdle
    /\ ExtractIdle
    /\ hist = FALSE

\* the string made of the given pieces, in order
RECURSIVE Concat(_)
Concat(pieces) ==
    IF pieces = <<>> THEN <<>> ELSE Head(pieces) \o Concat(Tail(pieces))

\* the strings made of at most n pieces of the given set
Texts(pieces, n) == {Concat(ps) : ps \in UNION {[1..k -> pieces] : k \in 0..n}}

\* number of pieces in a raw address
MaxAddressPieces == 4

\* pieces of the addresses Google Maps shows on a card
AddressPieces ==
    {<<"1", "2">>, <<":">>, <<" ">>, <<",", " ">>, <<" ", "·", " ">>, <<"A">>,
     <<"R", "u", "a", " ">>, <<"R", ".", " ">>, <<"A", "v", "e", "n", "i", "d", "a", " ">>}

RawAddresses == Texts(AddressPieces, MaxAddressPieces) \cup {NA}

InitClean ==
    /\ NotRunning
    /\ cat = 1
    /\ fn = "_clean_address"
    /\ arg \in RawAddresses
    /\ ret = <<>>

\* _clean_address(raw_address), then _clean_address of what it returned
CleanAddress ==
    /\ fn = "_clean_address"
    /\ Len(ret) < 2
    /\ ret' = Append(ret, _clean_address(IF ret = <<>> THEN arg ELSE ret[Len(ret)]))
    /\ UNCHANGED <<pc, cat, all_results, mainVars, processed, failed, scrollVars,
                   extractVars, hist, fn, arg>>

SpecClean == InitClean /\ [][CleanAddress]_vars

\* number of pieces in a card text given to _extract_rating
MaxRatingPieces == 4

\* pieces of card texts around a rating
RatingPieces ==
    {<<"4", ",", "5">>, <<"4", ".", "5">>, <<"3", ".", "1">>, <<"7">>, <<",">>,
     <<"(">>, <<" ">>, <<"\n">>, <<"x">>}

RatingTexts == Texts(RatingPieces, MaxRatingPieces)

InitRating ==
    /\ NotRunning
    /\ cat = 1
    /\ fn = "_extract_rating"
    /\ arg \in RatingTexts
    /\ ret = <<>>

\* nota = _extract_rating(text_content)
ExtractRating ==
    /\ fn = "_extract_rating"
    /\ ret = <<>>
    /\ ret' = <<_extract_rating(arg)>>
    /\ UNCHANGED <<pc, cat, all_results, mainVars, processed, failed, scrollVars,
                   extractVars, hist, fn, arg>>

SpecRating == InitRating /\ [][ExtractRating]_vars

\* the card of the "Academia Corpo & Cia" scenario and cards around it: the
\* aria-label, then the lines of the card's innerText
ScenarioName ==
    <<"A", "c", "a", "d", "e", "m", "i", "a", " ", "C", "o", "r", "p", "o", " ",
      "&", " ", "C", "i", "a">>

ScenarioNames == {ScenarioName, <<" ">> \o ScenarioName \o <<" ">>}

ScenarioCategory ==
    <<"A", "c", "a", "d", "e", "m", "i", "a", " ", "·", " ">>

ScenarioRatings ==
    {<<"4", ",", "8", "(", "3", "2", "1", ")">>,
     <<"4", ".", "8", "(", "3", "2", "1", ")">>,
     <<"4", ",", "8", " ", "(", "3", "2", "1", ")">>}

ScenarioSeparator ==
    <<" ", "·", " ">>

ScenarioAddresses ==
    {<<"A", "v", ".", " ", "P", "a", "u", "l", "i", "s", "t", "a", ",", " ", "1", "0", "0", "0">>,
     <<"A", "v", "e", "n", "i", "d", "a", " ", "P", "a", "u", "l", "i", "s", "t", "a", ",", " ", "1", "0", "0", "0">>,
     <<"1", "0", "0", "0", " ", "A", "v", "e", "n", "i", "d", "a", " ", "P", "a", "u", "l", "i", "s", "t", "a">>}

ScenarioStatuses ==
    {<<"A", "b", "e", "r", "t", "o", " ", "2", "4", " ", "h", "o", "r", "a", "s">>,
     <<"F", "e", "c", "h", "a", "d", "o">>}

ScenarioText(rating, address, status) ==
    ScenarioName \o <<"\n">> \o ScenarioCategory \o rating \o ScenarioSeparator
        \o address \o <<"\n">> \o status

ScenarioCards ==
    {Card("none", name, "none", ScenarioText(rating, address, status)) :
        name \in ScenarioNames, rating \in ScenarioRatings,
        address \in ScenarioAddresses, status \in ScenarioStatuses}

InitRecord ==
    /\ NotRunning
    /\ cat \in 1..Len(TIPOS_ESTABELECIMENTO)
    /\ fn = "_extract_single_result"
    /\ arg \in ScenarioCards
    /\ ret = <<>>

\* data = _extract_single_result(driver, card, tipo)
ExtractSingleResult ==
    /\ fn = "_extract_single_result"
    /\ ret = <<>>
    /\ ret' = <<_extract_single_result(arg, tipo)>>
    /\ UNCHANGED <<pc, cat, all_results, mainVars, processed, failed, scrollVars,
                   extractVars, hist, fn, arg>>

SpecRecord == InitRecord /\ [][ExtractSingleResult]_vars

(***************************************************************************)
(* Properties.                                                             *)
(***************************************************************************)
NCategories == Len(TIPOS_ESTABELECIMENTO)

\* both sinks were handed the result collection as it is now
Persisted ==
    /\ \E k \in 1..Len(sinks) : sinks[k] = SinkCall("save_json")
    /\ \E k \in 1..Len(sinks) : sinks[k] = SinkCall("generate_excel")

\* C1: when Ctrl+C arrives during category iteration (in search_maps,
\* scroll_results or extract_results) with records already collected, the
\* process ends with the records handed to save_json and generate_excel and
\* with close_driver called.
C1_InterruptPersistsResults ==
    (pc = "done" /\ interrupted \in {"search", "scroll", "extract"} /\ all_results # <<>>)
        => (Persisted /\ closes = 1)

\* the extents scroll_results has read: one after each scroll command
Readings == Tail(extents)

\* C2: a fault-free scroll_results call whose extent readings are 100, 250,
\* 250 issues exactly 2 scroll commands and returns 2.
C2_StallOnSecondRead ==
    (/\ spc = "returned"
     /\ scrollExc = "none"
     /\ Len(Readings) >= 3
     /\ SubSeq(Readings, 1, 3) = <<100, 250, 250>>)
        => (cmds = 2 /\ scrollRet = <<2>>)

\* C3: when a driver call of iteration k raises, scroll_results returns to
\* main the number of iterations completed before it, k - 1.
C3_FaultReturnsIterationsDone ==
    (spc = "returned" /\ faultIter >= 1)
        => (pc = "extract" /\ scrollRet = <<doneAtFault>>)

\* C4: when an exception reaches main's `except Exception`, the process ends
\* with status 1, with close_driver called if the browser was launched, and
\* with the records collected so far handed to both sinks.
C4_FatalFlushesAndCloses ==
    (pc = "done" /\ fatal # "no")
        => /\ exit_code = "1"
           /\ driver # "None" => closes = 1
           /\ all_results # <<>> => Persisted

\* the records a sequence of cards yields, in card order
RECURSIVE Yielded(_, _)
Yielded(cards, t) ==
    IF cards = <<>>
    THEN <<>>
    ELSE LET data == _extract_single_result(Head(cards), t)
         IN  (IF data.exc = "none" THEN data.data ELSE <<>>) \o Yielded(Tail(cards), t)

\* C5: extract_results never holds more than MAX_RESULTADOS_POR_TIPO records;
\* its records are those of the cards it read, in card order; every card it
\* read was read below the cap; and it returns only with the cap reached or
\* with every card read.
C5_CapRespected ==
    /\ Len(results) <= MAX_RESULTADOS_POR_TIPO
    /\ results = Yielded(seen, tipo)
    /\ \A k \in 1..Len(seen) :
          Len(Yielded(SubSeq(seen, 1, k - 1), tipo)) < MAX_RESULTADOS_POR_TIPO
    /\ (epc = "returned" /\ extractExc = "none")
          => (Len(results) = MAX_RESULTADOS_POR_TIPO \/ Len(seen) = ncards)

\* the cap is reached while a card is still unread
C5_Witness ==
    /\ epc = "returned"
    /\ Len(results) = MAX_RESULTADOS_POR_TIPO
    /\ Len(seen) < ncards

\* the card has a usable name attribute
HasName(card) ==
    /\ card.aria # None
    /\ \E p \in 1..Len(card.aria) : ~IsSpace(card.aria[p])

\* reading the card raises out of _extract_single_result
Faulty(card) ==
    \/ card.linkFault \notin {"none", "NoSuchElementException"}
    \/ card.linkFault = "none" /\ HasName(card) /\ card.textFault # "none"

\* a step of the loop that reads a faulty card
ReadsFaultyCard ==
    /\ pc = "extract"
    /\ epc = "loop"
    /\ Len(seen') = Len(seen) + 1
    /\ Faulty(seen'[Len(seen')])

\* C6: a card whose read raises is skipped and the loop goes on with the
\* next card: the step leaves results alone and stays in the loop, and a
\* call that returns below the cap has read every card and returns the
\* records of the cards that did not raise, in card order.
C6_FaultSkipsOneCard ==
    /\ [][ReadsFaultyCard =>
            (results' = results /\ idx' = idx + 1 /\ epc' = "loop" /\ ncards' = ncards)]_vars
    /\ [](  (epc = "returned" /\ extractExc = "none"
                 /\ Len(results) < MAX_RESULTADOS_POR_TIPO)
            => /\ Len(seen) = ncards
               /\ results = Yielded(SelectSeq(seen, LAMBDA c : ~Faulty(c)), tipo))

\* a stale card sits between two cards that yield records
C6_Witness ==
    /\ epc = "returned"
    /\ Len(seen) = 3
    /\ seen[2] = CardStale
    /\ Len(results) = 2

\* the for loop of main goes on after category `cat`
MovesOn ==
    \/ cat < NCategories /\ cat' = cat + 1 /\ pc' = "search"
    \/ cat = NCategories /\ cat' = cat /\ pc' = "save_json"

\* C7: a category whose search or extraction fails is the only thing lost:
\* the failing step keeps all_results and is not fatal, main's loop moves on
\* to the next category (or to the output step after the last), and the
\* output step is only reached with every category processed.
C7_CategoryFailureIsLocal ==
    /\ [][(failed' # failed) =>
            /\ all_results' = all_results
            /\ fatal' = "no"
            /\ interrupted' = interrupted
            /\ MovesOn \/ (pc' = "extract" /\ epc' = "returned" /\ results' = <<>>)]_vars
    /\ [][(pc = "extract" /\ epc = "returned" /\ interrupted' = "no") =>
            (MovesOn /\ all_results' = all_results \o results)]_vars
    /\ [](fatal \notin {"search", "scroll", "extract"})
    /\ [](pc \in {"save_json", "generate_excel"} => processed = 1..NCategories)

\* the output step is reached with records of the first category after the
\* other two categories failed
C7_Witness ==
    /\ pc = "save_json"
    /\ failed = {2, 3}
    /\ all_results # <<>>

\* every scroll command so far enlarged the feed
GrewEveryIteration == \A k \in 2..Len(extents) : extents[k - 1] < extents[k]

C9_MissingFeedIsSoft ==
    [][(pc = "scroll" /\ spc = "find" /\ scrollExc' = "NoSuchElementException") =>
         /\ scrollRet' = <<0>>
         /\ cmds' = 0
         /\ pc' = "extract"
         /\ epc' = "find"
         /\ cat' = cat
         /\ fatal' = "no"
         /\ failed' = failed]_vars

\* scroll_results has returned 0 for a missing feed and extract_results is next
C9_Witness ==
    /\ pc = "extract"
    /\ epc = "find"
    /\ scrollExc = "NoSuchElementException"
    /\ faultIter = 0
    /\ scrollRet = <<0>>

\* a rating is "N/A" or digit, comma, digit
RatingShape(nota) ==
    \/ nota = NA
    \/ Len(nota) = 3 /\ IsDigit(nota[1]) /\ nota[2] = "," /\ IsDigit(nota[3])

\* a review count is "N/A" or digits and dots after a first digit
ReviewShape(avaliacoes) ==
    \/ avaliacoes = NA
    \/ /\ avaliacoes # None
       /\ avaliacoes # <<>>
       /\ IsDigit(avaliacoes[1])
       /\ \A k \in 1..Len(avaliacoes) : IsDigit(avaliacoes[k]) \/ avaliacoes[k] = "."

\* C10: every record has the five fields, a non-empty name, the category
\* extract_results was called with, a rating and a review count that are a
\* parsed value or "N/A" and an address that is not None; and the cards
\* without a usable name attribute contribute no record.
C10_RecordsWellFormed ==
    /\ \A k \in 1..Len(results) :
          /\ DOMAIN results[k] = {"nome", "tipo", "nota", "avaliacoes", "endereco"}
          /\ results[k].nome # <<>>
          /\ results[k].nome # None
          /\ results[k].tipo = tipo
          /\ RatingShape(results[k].nota)
          /\ ReviewShape(results[k].avaliacoes)
          /\ results[k].endereco # None
    /\ Len(results) <= Cardinality({k \in 1..Len(seen) : HasName(seen[k])})

\* a card with a blank name was read, and the call returned a record with a
\* parsed rating and one with the sentinel
C10_Witness ==
    /\ epc = "returned"
    /\ \E k \in 1..Len(seen) : seen[k] = CardBlankLabel
    /\ \E k \in 1..Len(results) : results[k].nota # NA
    /\ \E k \in 1..Len(results) : results[k].nota = NA

\* the position of a category tag in the configured iteration order
TipoIndex(t) == CHOOSE k \in 1..NCategories : TIPOS_ESTABELECIMENTO[k] = t

\* the categories main has finished with
CategoriesDone == IF pc \in {"search", "scroll", "extract"} THEN cat - 1 ELSE cat

\* C11: all_results is the concatenation of the categories' records in the
\* configured order: a record of a later category never precedes one of an
\* earlier category, all_results changes only by main appending the records
\* extract_results returned for the current category, and those records were
\* appended one card at a time, in the order the cards were read.
C11_ResultsInTraversalOrder ==
    /\ [](\A a, b \in 1..Len(all_results) :
             a < b => TipoIndex(all_results[a].tipo) <= TipoIndex(all_results[b].tipo))
    /\ [](\A a \in 1..Len(all_results) : TipoIndex(all_results[a].tipo) <= CategoriesDone)
    /\ [](\A a \in 1..Len(results) : results[a].tipo = tipo)
    /\ [][all_results' # all_results =>
            /\ pc = "extract"
            /\ epc = "returned"
            /\ all_results' = all_results \o results]_vars
    /\ [][(pc = "extract" /\ epc = "loop" /\ results' # results) =>
            /\ idx' = idx + 1
            /\ \E card \in Cards : results' = results \o Yielded(<<card>>, tipo)]_vars

\* the output step is reached with two different records of the first
\* category followed by a record of the last
C11_Witness ==
    /\ pc = "save_json"
    /\ Len(all_results) = 3
    /\ all_results[1].tipo = TIPOS_ESTABELECIMENTO[1]
    /\ all_results[2].tipo = TIPOS_ESTABELECIMENTO[1]
    /\ all_results[1].nome # all_results[2].nome
    /\ all_results[3].tipo = TIPOS_ESTABELECIMENTO[3]

\* C12: a run that is not interrupted ends with all_results handed to each
\* output sink exactly once, save_json then generate_excel, also when it is
\* empty, and a sink is only ever called with every category processed and
\* the category loop left.
C12_SinksOnceAfterAllCategories ==
    /\ (pc = "done" /\ interrupted = "no" /\ driver # "None")
          => sinks = <<SinkCall("save_json"), SinkCall("generate_excel")>>
    /\ sinks # <<>>
          => (processed = 1..NCategories /\ pc \notin {"search", "scroll", "extract"})

\* C13: _clean_address is idempotent: cleaning what it returned for a raw
\* address returns the same string.
C13_CleanAddressIdempotent ==
    (fn = "_clean_address" /\ Len(ret) = 2) => ret[2] = ret[1]

\* digit, separator, digit at positions p, p + 1, p + 2 of t
PairAt(t, p) ==
    /\ p + 2 <= Len(t)
    /\ t[p] \in Digits
    /\ t[p + 1] = "," \/ t[p + 1] = "."
    /\ t[p + 2] \in Digits

\* the pair at p is followed, after q - p - 3 whitespace characters, by "(" at q
ParenAfterPair(t, p, q) ==
    /\ q >= p + 3
    /\ q <= Len(t)
    /\ t[q] = "("
    /\ \A k \in (p + 3)..(q - 1) : t[k] \in Whitespace

\* a pair followed by an opening parenthesis starts at p
ParenPair(t, p) == PairAt(t, p) /\ \E q \in 1..Len(t) : ParenAfterPair(t, p, q)

\* a pair starts at p, the first character of a line
LinePair(t, p) == PairAt(t, p) /\ (p = 1 \/ t[p - 1] = "\n")

\* the pair at p with a comma for its separator
CommaPair(t, p) == <<t[p], ",", t[p + 2]>>

\* C14: _extract_rating returns the first digit-separator-digit pair that is
\* followed (after optional whitespace) by "(", with a comma for its
\* separator; if there is none, the first such pair at the start of a line,
\* with a comma; if there is none either, "N/A".
C14_RatingFallbackChain ==
    (fn = "_extract_rating" /\ ret # <<>>) =>
        LET positions == 1..Len(arg)
            first(P(_)) == CHOOSE p \in positions : P(p) /\ \A o \in 1..(p - 1) : ~P(o)
            paren(p) == ParenPair(arg, p)
            line(p) == LinePair(arg, p)
        IN  /\ Len(ret) = 1
            /\ (\E p \in positions : paren(p))
                  => ret[1] = CommaPair(arg, first(paren))
            /\ ((\A p \in positions : ~paren(p)) /\ (\E p \in positions : line(p)))
                  => ret[1] = CommaPair(arg, first(line))
            /\ (\A p \in positions : ~paren(p) /\ ~line(p))
                  => ret[1] = NA

\* "3.1" leads the first line and "4.5(" follows on the second: the pair
\* before the parenthesis is returned, with a comma
C14_Witness ==
    /\ fn = "_extract_rating"
    /\ arg = <<"3", ".", "1", "\n", "4", ".", "5", "(">>
    /\ ret = <<<<"4", ",", "5">>>>

\* the card of the scenario
ScenarioCard ==
    Card("none", ScenarioName, "none",
         ScenarioText(<<"4", ",", "8", "(", "3", "2", "1", ")">>,
                      <<"A", "v", ".", " ", "P", "a", "u", "l", "i", "s", "t", "a", ",", " ", "1", "0", "0", "0">>,
                      <<"A", "b", "e", "r", "t", "o", " ", "2", "4", " ", "h", "o", "r", "a", "s">>))

\* C15: for the card named "Academia Corpo & Cia" whose text is the lines
\* "Academia Corpo & Cia", "Academia · 4,8(321) · Av. Paulista, 1000" and
\* "Aberto 24 horas", _extract_single_result returns the record with that
\* name, the given category, rating "4,8", review count "321" and address
\* "Av. Paulista, 1000".
C15_ScenarioRecord ==
    (fn = "_extract_single_result" /\ ret # <<>> /\ arg = ScenarioCard) =>
        ret = <<Returns(<<[nome |-> ScenarioName,
                           tipo |-> TIPOS_ESTABELECIMENTO[cat],
                           nota |-> <<"4", ",", "8">>,
                           avaliacoes |-> <<"3", "2", "1">>,
                           endereco |-> <<"A", "v", ".", " ", "P", "a", "u", "l", "i", "s", "t", "a", ",", " ", "1", "0", "0", "0">>]>>)>>

\* the record of the scenario card was built for the second category
C15_Witness ==
    /\ fn = "_extract_single_result"
    /\ arg = ScenarioCard
    /\ cat = 2
    /\ ret # <<>>
    /\ ret[1].exc = "none"
    /\ Len(ret[1].data) = 1

\* the reads of the extent scroll_results has completed
ReadsDone == IF spc = "read" THEN cmds - 1 ELSE cmds

\* C16: in every iteration, the first included, scroll_results takes the
\* stall exit exactly when the extent it reads equals the extent the feed had
\* before that iteration's scroll command: a read that did not stall saw a
\* changed extent, and the stall exit is taken on an unchanged one.  Stated
\* for feeds that never shrink.
C16_StallIffExtentUnchanged ==
    (/\ scrollExc = "none"
     /\ extents # <<>>
     /\ \A k \in 2..Len(extents) : extents[k - 1] <= extents[k]) =>
        /\ \A k \in 1..ReadsDone :
              (k < ReadsDone \/ ~stalled) => extents[k + 1] # extents[k]
        /\ stalled => extents[ReadsDone + 1] = extents[ReadsDone]

\* C17: scroll_results returns, whatever the extents read and whichever driver
\* call raises; it issues at most MAX_SCROLLS scroll commands, and the count
\* it returns is in 0..MAX_SCROLLS, is at most the number of scroll commands
\* issued, and is that number when no driver call raised.
C17_ScrollTerminatesWithBoundedCount ==
    /\ <>(spc = "returned")
    /\ [](cmds <= MAX_SCROLLS)
    /\ [](spc = "returned" =>
            /\ Len(scrollRet) = 1
            /\ scrollRet[1] \in 0..MAX_SCROLLS
            /\ scrollRet[1] <= cmds
            /\ scrollExc = "none" => scrollRet[1] = cmds)
    /\ [](spc # "returned" => scrollRet = <<>>)

\* a read raised after three scroll commands and the call returned 0
C17_Witness ==
    /\ spc = "returned"
    /\ scrollExc = "WebDriverException"
    /\ cmds = 3
    /\ scrollRet = <<0>>

\* C18: however main ends (normally, by Ctrl+C, by a fatal exception, by an
\* output sink failing), close_driver is called exactly once if init_driver
\* returned the browser, and its call is the last step: no search, scroll or
\* extraction follows it.  If init_driver did not return, close_driver is not
\* called and no category was processed.
C18_BrowserClosedOnceAtTheEnd ==
    /\ [](closes <= 1)
    /\ [](pc = "done" =>
            /\ driver # "None" => closes = 1
            /\ driver = "None" => (closes = 0 /\ processed = {} /\ all_results = <<>>))
    /\ [](closes = 1 => (pc = "done" /\ driver # "None"))
    /\ [][closes' # closes => (pc = "finally" /\ pc' = "done" /\ driver = "open")]_vars
    /\ [][pc = "done" => pc' = "done"]_vars
    /\ [][driver = "None" =>
            (processed' = processed /\ spc' = spc /\ epc' = epc /\ cmds' = cmds)]_vars

\* the browser was closed once at the end of a run in which save_json failed
\* after records were collected
C18_Witness ==
    /\ pc = "done"
    /\ fatal = "save_json"
    /\ all_results # <<>>
    /\ closes = 1

====
